---- MODULE Spec2Model ----
(***************************************************************************)
(* Model of JsonComparator (src/json_comparator.py): the fuzzy scalar      *)
(* matcher, the value tally, the recursive tree comparison and the         *)
(* similarity session built on them.                                       *)
(*                                                                         *)
(* Python strings are sequences of one-character strings.  A Python value  *)
(* is a record of one fixed shape, tagged by `kind`.                       *)
(***************************************************************************)
EXTENDS Integers, Sequences, FiniteSets, TLC

\* Longest array the generated documents contain.
MaxLen == 2

----------------------------------------------------------------------------
\* Python values

\* str
Str(t) == [kind |-> "str", text |-> t, n |-> 0, keys |-> <<>>, items |-> <<>>]
\* int (JSON number)
Num(i) == [kind |-> "int", text |-> <<>>, n |-> i, keys |-> <<>>, items |-> <<>>]
\* bool: n = 1 is True, n = 0 is False
Bool(b) == [kind |-> "bool", text |-> <<>>, n |-> IF b THEN 1 ELSE 0, keys |-> <<>>, items |-> <<>>]
\* None (JSON null)
Null == [kind |-> "none", text |-> <<>>, n |-> 0, keys |-> <<>>, items |-> <<>>]
\* list
List(xs) == [kind |-> "list", text |-> <<>>, n |-> 0, keys |-> <<>>, items |-> xs]
\* dict, in insertion order: keys[i] maps to items[i]
Dict(ks, xs) == [kind |-> "dict", text |-> <<>>, n |-> 0, keys |-> ks, items |-> xs]
\* the object() placeholder zip_longest fills the shorter list with;
\* text is the address its default repr prints
Absent(addr) == [kind |-> "object", text |-> addr, n |-> 0, keys |-> <<>>, items |-> <<>>]
\* a caller-supplied object whose __str__ and __repr__ raise Exception(text)
Unprintable(msg) == [kind |-> "raiser", text |-> msg, n |-> 0, keys |-> <<>>, items |-> <<>>]

----------------------------------------------------------------------------
\* Text helpers

UpperChars == <<"A", "B", "C", "D", "E", "F", "G", "H", "I", "J", "K", "L", "M", "N", "O", "P", "Q", "R", "S", "T", "U", "V", "W", "X", "Y", "Z">>
LowerChars == <<"a", "b", "c", "d", "e", "f", "g", "h", "i", "j", "k", "l", "m", "n", "o", "p", "q", "r", "s", "t", "u", "v", "w", "x", "y", "z">>
DigitChars == <<"0", "1", "2", "3", "4", "5", "6", "7", "8", "9">>

\* str.lower() on one character
LowerChar(c) ==
    IF \E i \in 1..26 : UpperChars[i] = c
    THEN LowerChars[CHOOSE i \in 1..26 : UpperChars[i] = c]
    ELSE c

\* str.lower()
lower(s) == [i \in 1..Len(s) |-> LowerChar(s[i])]

RECURSIVE NatStr(_)
\* decimal digits of a natural number
NatStr(i) ==
    IF i < 10 THEN <<DigitChars[i + 1]>>
    ELSE NatStr(i \div 10) \o <<DigitChars[(i % 10) + 1]>>

\* str(int)
IntStr(i) == IF i < 0 THEN <<"-">> \o NatStr(0 - i) ELSE NatStr(i)

RECURSIVE Join(_, _)
\* sep.join(parts)
Join(parts, sep) ==
    IF Len(parts) = 0 THEN <<>>
    ELSE IF Len(parts) = 1 THEN parts[1]
    ELSE parts[1] \o sep \o Join(Tail(parts), sep)

RECURSIVE PyRepr(_)
\* repr(v), for a value whose repr does not raise
PyRepr(v) ==
    CASE v.kind = "str" -> <<"'">> \o v.text \o <<"'">>
      [] v.kind = "int" -> IntStr(v.n)
      [] v.kind = "bool" -> IF v.n = 1 THEN <<"T", "r", "u", "e">> ELSE <<"F", "a", "l", "s", "e">>
      [] v.kind = "none" -> <<"N", "o", "n", "e">>
      [] v.kind = "list" ->
            <<"[">> \o Join([i \in 1..Len(v.items) |-> PyRepr(v.items[i])], <<",", " ">>) \o <<"]">>
      [] v.kind = "dict" ->
            <<"{">>
            \o Join([i \in 1..Len(v.items) |->
                        <<"'">> \o v.keys[i] \o <<"'", ":", " ">> \o PyRepr(v.items[i])],
                    <<",", " ">>)
            \o <<"}">>
      [] OTHER ->
            <<"<", "o", "b", "j", "e", "c", "t", " ", "o", "b", "j", "e", "c", "t", " ", "a", "t", " ">>
            \o v.text \o <<">">>

RECURSIVE Raises(_)
\* str(v) raises: v is, or prints, an object whose __str__ raises
Raises(v) ==
    \/ v.kind = "raiser"
    \/ \E i \in 1..Len(v.items) : Raises(v.items[i])

RECURSIVE RaisedMsg(_)
\* the message of the exception str(v) raises: that of the first such object
RaisedMsg(v) ==
    IF v.kind = "raiser" THEN v.text
    ELSE RaisedMsg(v.items[CHOOSE i \in 1..Len(v.items) :
                              /\ Raises(v.items[i])
                              /\ \A j \in 1..(i - 1) : ~Raises(v.items[j])])

\* str(v)
PyStr(v) == IF v.kind = "str" THEN v.text ELSE PyRepr(v)

----------------------------------------------------------------------------
\* fuzz.ratio

Max(x, y) == IF x >= y THEN x ELSE y

\* the element of a one-element set; { e(x) : x \in {v} } names the value of
\* v once
The(S) == CHOOSE x \in S : TRUE

RECURSIVE LcsCells(_, _, _, _, _, _)
\* cells lo..hi of one row of the edit table, given `left`, the cell before
\* lo: cell j is the longest common subsequence of the prefix read so far
\* (ending in c) and the first j characters of t; prev is the row before
LcsCells(prev, c, t, lo, hi, left) ==
    IF lo = hi
    THEN << IF t[lo] = c THEN prev[lo] + 1 ELSE Max(prev[lo + 1], left) >>
    ELSE LET mid == (lo + hi) \div 2
         IN The({ head \o LcsCells(prev, c, t, mid + 1, hi, head[Len(head)])
                  : head \in {LcsCells(prev, c, t, lo, mid, left)} })

\* the row of the edit table after reading c: cells 0..Len(t)
LcsRow(prev, c, t) == <<0>> \o LcsCells(prev, c, t, 1, Len(t), 0)

RECURSIVE LcsRows(_, _, _, _, _)
\* the row after reading s[lo..hi], from the row before s[lo]
LcsRows(s, t, lo, hi, prev) ==
    IF lo = hi THEN LcsRow(prev, s[lo], t)
    ELSE LET mid == (lo + hi) \div 2
         IN The({ LcsRows(s, t, mid + 1, hi, row) : row \in {LcsRows(s, t, lo, mid, prev)} })

\* length of the longest common subsequence of two non-empty strings
Lcs(s, t) == LcsRows(s, t, 1, Len(s), [j \in 1..(Len(t) + 1) |-> 0])[Len(t) + 1]

\* round(num / den), ties to even, for num >= 0 and den > 0
RoundHalfEven(num, den) ==
    LET q == num \div den
        r == num % den
    IN IF 2 * r < den THEN q
       ELSE IF 2 * r > den THEN q + 1
       ELSE IF q % 2 = 0 THEN q ELSE q + 1

\* fuzz.ratio(s1, s2) of the fuzzywuzzy library, which fuzzy_match's docstring
\* describes as Levenshtein based: 100 for equal strings, 0 when one is
\* empty, otherwise the ratio 2 * matches / (len(s1) + len(s2)) as a rounded
\* percentage
ratio(s1, s2) ==
    IF s1 = s2 THEN 100
    ELSE IF Len(s1) = 0 \/ Len(s2) = 0 THEN 0
    ELSE RoundHalfEven(200 * Lcs(s1, s2), Len(s1) + Len(s2))

\* fuzzy_match(value_1, value_2): the ratio of the lowercased str() forms, or
\* the message of the exception raised on the way, as a string
fuzzy_match(value_1, value_2) ==
    IF Raises(value_1)
    THEN [num |-> FALSE, ratio |-> 0, msg |-> RaisedMsg(value_1)]
    ELSE IF Raises(value_2)
    THEN [num |-> FALSE, ratio |-> 0, msg |-> RaisedMsg(value_2)]
    ELSE [num |-> TRUE, ratio |-> ratio(lower(PyStr(value_1)), lower(PyStr(value_2))), msg |-> <<>>]

----------------------------------------------------------------------------
\* Environment of one run of the program

VARIABLES
    threshold,      \* self.threshold
    json_file_1,    \* self.json_file_1, as loaded
    json_file_2,    \* self.json_file_2, as loaded
    hashOrder,      \* the order in which this process iterates a set of keys
    fillAddr,       \* the address the fill objects of the last comparison printed
    last            \* the last method call: its name, arguments and outcome

vars == <<threshold, json_file_1, json_file_2, hashOrder, fillAddr, last>>

----------------------------------------------------------------------------
\* count_values

RECURSIVE recurse(_, _), recurseAll(_, _, _)
\* the inner recurse(data) of count_values, as a function of the counters
recurse(counts, data) ==
    CASE data.kind = "dict" -> recurseAll(counts, data.items, 1)
      [] data.kind = "list" ->
            recurseAll([counts EXCEPT !.array_members = @ + Len(data.items)], data.items, 1)
      [] data.kind = "str" -> [counts EXCEPT !.strings = @ + 1]
      [] data.kind = "bool" -> [counts EXCEPT !.booleans = @ + 1]
      [] data.kind = "int" -> [counts EXCEPT !.numbers = @ + 1]
      [] data.kind = "none" -> [counts EXCEPT !.nulls = @ + 1]
      [] OTHER -> counts

\* the for loops of recurse: the values from position i on, in order
recurseAll(counts, values, i) ==
    IF i > Len(values) THEN counts
    ELSE recurseAll(recurse(counts, values[i]), values, i + 1)

\* the counters after count_values' walk of json_data
tally(json_data) ==
    recurse([strings |-> 0, numbers |-> 0, booleans |-> 0, array_members |-> 0, nulls |-> 0],
            json_data)

\* count_values with array_members added into the total
count_values_with_members(json_data) ==
    LET counts == tally(json_data)
    IN counts.strings + counts.numbers + counts.booleans + counts.nulls + counts.array_members

\* count_values(json_data): the returned total
count_values(json_data) ==
    LET counts == tally(json_data)
    IN counts.strings + counts.numbers + counts.booleans + counts.nulls

----------------------------------------------------------------------------
\* compare_json

\* type(v).__name__
TypeName(v) ==
    CASE v.kind = "str" -> <<"s", "t", "r">>
      [] v.kind = "int" -> <<"i", "n", "t">>
      [] v.kind = "bool" -> <<"b", "o", "o", "l">>
      [] v.kind = "none" -> <<"N", "o", "n", "e", "T", "y", "p", "e">>
      [] v.kind = "list" -> <<"l", "i", "s", "t">>
      [] v.kind = "dict" -> <<"d", "i", "c", "t">>
      [] v.kind = "object" -> <<"o", "b", "j", "e", "c", "t">>
      [] OTHER -> <<"X">>

\* a normal return of compare_json
Returned(count, differences) ==
    [exc |-> "", msg |-> <<>>, count |-> count, differences |-> differences]

\* an exception leaving compare_json, with str(e)
Raised(exc, msg) == [exc |-> exc, msg |-> msg, count |-> 0, differences |-> <<>>]

\* set(json_data_1.keys()), in the order the for loop visits it
all_keys(env, json_data_1) ==
    SelectSeq(env.hashOrder, LAMBDA k : \E i \in 1..Len(json_data_1.keys) : json_data_1.keys[i] = k)

\* json_data_2[key] for a str key: the value, or the exception
Subscript(json_data_2, key) ==
    CASE json_data_2.kind = "dict" ->
            IF \E i \in 1..Len(json_data_2.keys) : json_data_2.keys[i] = key
            THEN [exc |-> "", msg |-> <<>>,
                  value |-> json_data_2.items[CHOOSE i \in 1..Len(json_data_2.keys) :
                                                 json_data_2.keys[i] = key]]
            ELSE [exc |-> "KeyError", msg |-> <<"'">> \o key \o <<"'">>, value |-> Null]
      [] json_data_2.kind = "list" ->
            [exc |-> "TypeError",
             msg |-> <<"l", "i", "s", "t", " ", "i", "n", "d", "i", "c", "e", "s", " ", "m", "u", "s", "t", " ", "b", "e", " ", "i", "n", "t", "e", "g", "e", "r", "s", " ", "o", "r", " ", "s", "l", "i", "c", "e", "s", ",", " ", "n", "o", "t", " ", "s", "t", "r">>,
             value |-> Null]
      [] json_data_2.kind = "str" ->
            [exc |-> "TypeError",
             msg |-> <<"s", "t", "r", "i", "n", "g", " ", "i", "n", "d", "i", "c", "e", "s", " ", "m", "u", "s", "t", " ", "b", "e", " ", "i", "n", "t", "e", "g", "e", "r", "s", ",", " ", "n", "o", "t", " ", "'", "s", "t", "r", "'">>,
             value |-> Null]
      [] OTHER ->
            [exc |-> "TypeError",
             msg |-> <<"'">> \o TypeName(json_data_2) \o <<"'", " ", "o", "b", "j", "e", "c", "t", " ", "i", "s", " ", "n", "o", "t", " ", "s", "u", "b", "s", "c", "r", "i", "p", "t", "a", "b", "l", "e">>,
             value |-> Null]

\* iter(json_data_2) inside zip_longest: the elements, or the exception
Iterate(json_data_2) ==
    CASE json_data_2.kind = "list" -> [exc |-> "", msg |-> <<>>, elems |-> json_data_2.items]
      [] json_data_2.kind = "dict" ->
            [exc |-> "", msg |-> <<>>,
             elems |-> [i \in 1..Len(json_data_2.keys) |-> Str(json_data_2.keys[i])]]
      [] json_data_2.kind = "str" ->
            [exc |-> "", msg |-> <<>>,
             elems |-> [i \in 1..Len(json_data_2.text) |-> Str(<<json_data_2.text[i]>>)]]
      [] OTHER ->
            [exc |-> "TypeError",
             msg |-> <<"'">> \o TypeName(json_data_2) \o <<"'", " ", "o", "b", "j", "e", "c", "t", " ", "i", "s", " ", "n", "o", "t", " ", "i", "t", "e", "r", "a", "b", "l", "e">>,
             elems |-> <<>>]

\* f"{key_path}.{key}" if key_path else key
KeyPath(key_path, key) == IF key_path # <<>> THEN key_path \o <<".">> \o key ELSE key

\* f"{key_path}[{index}]"
IndexPath(key_path, index) == key_path \o <<"[">> \o IntStr(index) \o <<"]">>

\* f"Value difference at {key_path}: '{json_data_1}' vs '{json_data_2}'"
Difference(key_path, json_data_1, json_data_2) ==
    <<"V", "a", "l", "u", "e", " ", "d", "i", "f", "f", "e", "r", "e", "n", "c", "e", " ", "a", "t", " ">> \o key_path \o <<":", " ", "'">> \o PyStr(json_data_1)
    \o <<"'", " ", "v", "s", " ", "'">> \o PyStr(json_data_2) \o <<"'">>

\* str(e) of the TypeError raised by `ratio < self.threshold` when ratio is a str
StrIntOrderError ==
    <<"'", "<", "'", " ", "n", "o", "t", " ", "s", "u", "p", "p", "o", "r", "t", "e", "d", " ", "b", "e", "t", "w", "e", "e", "n", " ", "i", "n", "s", "t", "a", "n", "c", "e", "s", " ", "o", "f", " ", "'", "s", "t", "r", "'", " ", "a", "n", "d", " ", "'", "i", "n", "t", "'">>

RECURSIVE compare_json(_, _, _, _, _), DictLoop(_, _, _, _, _, _, _), ListLoop(_, _, _, _, _, _, _)
RECURSIVE DictLoopBothKeySets(_, _, _, _, _, _, _)
RECURSIVE ListLoopZip(_, _, _, _, _, _, _), ListLoopOverwrite(_, _, _, _, _, _, _)

\* CompareLeaf with `ratio <= self.threshold`
CompareLeafAtMost(self, key_path, json_data_1, json_data_2) ==
    The({ IF ~r.num THEN Raised("TypeError", StrIntOrderError)
          ELSE IF r.ratio <= self.threshold
          THEN Returned(1, <<Difference(key_path, json_data_1, json_data_2)>>)
          ELSE Returned(0, <<>>)
          : r \in {fuzzy_match(json_data_1, json_data_2)} })

\* CompareLeaf with `ratio > self.threshold`
CompareLeafAbove(self, key_path, json_data_1, json_data_2) ==
    The({ IF ~r.num THEN Raised("TypeError", StrIntOrderError)
          ELSE IF r.ratio > self.threshold
          THEN Returned(1, <<Difference(key_path, json_data_1, json_data_2)>>)
          ELSE Returned(0, <<>>)
          : r \in {fuzzy_match(json_data_1, json_data_2)} })

\* the else branch of compare_json: json_data_1 is neither a dict nor a list
CompareLeaf(self, key_path, json_data_1, json_data_2) ==
    The({ IF ~r.num THEN Raised("TypeError", StrIntOrderError)
          ELSE IF r.ratio < self.threshold
          THEN Returned(1, <<Difference(key_path, json_data_1, json_data_2)>>)
          ELSE Returned(0, <<>>)
          : r \in {fuzzy_match(json_data_1, json_data_2)} })

\* number of keys of json_data_2 that json_data_1 lacks, when both are dicts
KeysOnlyIn2(json_data_1, json_data_2) ==
    IF json_data_2.kind # "dict" THEN 0
    ELSE Cardinality({i \in 1..Len(json_data_2.keys) :
                         \A j \in 1..Len(json_data_1.keys) :
                             json_data_1.keys[j] # json_data_2.keys[i]})

\* DictLoop that also counts each key found only in json_data_2
DictLoopBothKeySets(self, env, json_data_1, json_data_2, key_path, keys, acc) ==
    IF keys = <<>> THEN Returned(acc.count + KeysOnlyIn2(json_data_1, json_data_2), acc.differences)
    ELSE LET key == Head(keys)
             v1 == json_data_1.items[CHOOSE i \in 1..Len(json_data_1.keys) :
                                        json_data_1.keys[i] = key]
             s2 == Subscript(json_data_2, key)
         IN IF s2.exc # "" THEN Raised(s2.exc, s2.msg)
            ELSE The({ IF new.exc # "" THEN new
                       ELSE DictLoopBothKeySets(self, env, json_data_1, json_data_2, key_path, Tail(keys),
                                Returned(acc.count + new.count,
                                         acc.differences \o new.differences))
                       : new \in {compare_json(self, env, v1, s2.value,
                                               KeyPath(key_path, key))} })

\* the for loop over all_keys, from the keys still to visit and the sums so far
DictLoop(self, env, json_data_1, json_data_2, key_path, keys, acc) ==
    IF keys = <<>> THEN acc
    ELSE LET key == Head(keys)
             v1 == json_data_1.items[CHOOSE i \in 1..Len(json_data_1.keys) :
                                        json_data_1.keys[i] = key]
             s2 == Subscript(json_data_2, key)
         IN IF s2.exc # "" THEN Raised(s2.exc, s2.msg)
            ELSE The({ IF new.exc # "" THEN new
                       ELSE DictLoop(self, env, json_data_1, json_data_2, key_path, Tail(keys),
                                Returned(acc.count + new.count,
                                         acc.differences \o new.differences))
                       : new \in {compare_json(self, env, v1, s2.value,
                                               KeyPath(key_path, key))} })

\* ListLoop with zip in place of zip_longest
ListLoopZip(self, env, items_1, items_2, key_path, index, acc) ==
    IF index >= Len(items_1) \/ index >= Len(items_2) THEN acc
    ELSE LET item1 == IF index < Len(items_1) THEN items_1[index + 1] ELSE Absent(env.fillAddr)
             item2 == IF index < Len(items_2) THEN items_2[index + 1] ELSE Absent(env.fillAddr)
         IN The({ IF new.exc # "" THEN new
                  ELSE ListLoopZip(self, env, items_1, items_2, key_path, index + 1,
                           Returned(acc.count + new.count, acc.differences \o new.differences))
                  : new \in {compare_json(self, env, item1, item2,
                                          IndexPath(key_path, index))} })

\* ListLoop with `difference_count = new_count`
ListLoopOverwrite(self, env, items_1, items_2, key_path, index, acc) ==
    IF index >= Len(items_1) /\ index >= Len(items_2) THEN acc
    ELSE LET item1 == IF index < Len(items_1) THEN items_1[index + 1] ELSE Absent(env.fillAddr)
             item2 == IF index < Len(items_2) THEN items_2[index + 1] ELSE Absent(env.fillAddr)
         IN The({ IF new.exc # "" THEN new
                  ELSE ListLoopOverwrite(self, env, items_1, items_2, key_path, index + 1,
                           Returned(new.count, acc.differences \o new.differences))
                  : new \in {compare_json(self, env, item1, item2,
                                          IndexPath(key_path, index))} })

\* the for loop over enumerate(zip_longest(...)), from index and the sums so far
ListLoop(self, env, items_1, items_2, key_path, index, acc) ==
    IF index >= Len(items_1) /\ index >= Len(items_2) THEN acc
    ELSE LET item1 == IF index < Len(items_1) THEN items_1[index + 1] ELSE Absent(env.fillAddr)
             item2 == IF index < Len(items_2) THEN items_2[index + 1] ELSE Absent(env.fillAddr)
         IN The({ IF new.exc # "" THEN new
                  ELSE ListLoop(self, env, items_1, items_2, key_path, index + 1,
                           Returned(acc.count + new.count, acc.differences \o new.differences))
                  : new \in {compare_json(self, env, item1, item2,
                                          IndexPath(key_path, index))} })

\* compare_json(self, json_data_1, json_data_2, key_path), run in the process
\* environment env
compare_json(self, env, json_data_1, json_data_2, key_path) ==
    CASE json_data_1.kind = "dict" ->
            DictLoop(self, env, json_data_1, json_data_2, key_path, all_keys(env, json_data_1),
                     Returned(0, <<>>))
      [] json_data_1.kind = "list" ->
            LET it == Iterate(json_data_2)
            IN IF it.exc # "" THEN Raised(it.exc, it.msg)
               ELSE ListLoop(self, env, json_data_1.items, it.elems, key_path, 0,
                             Returned(0, <<>>))
      [] OTHER -> CompareLeaf(self, key_path, json_data_1, json_data_2)

----------------------------------------------------------------------------
\* get_comparison

\* f"{num / den * 100:.2f}" for den > 0
Percent2f(num, den) ==
    LET mag == IF num < 0 THEN 0 - num ELSE num
        h == RoundHalfEven(mag * 10000, den)
        frac == h % 100
    IN (IF num < 0 THEN <<"-">> ELSE <<>>)
       \o NatStr(h \div 100) \o <<".">>
       \o <<DigitChars[(frac \div 10) + 1], DigitChars[(frac % 10) + 1]>>

\* get_comparison(self): (text, differences), or a bare text
get_comparison(self, env) ==
    LET total_values == count_values(self.json_file_1)
    IN The({ IF c.exc # ""
             THEN [pair |-> FALSE, text |-> c.msg, differences |-> <<>>]
             ELSE IF total_values > 0
             THEN [pair |-> TRUE,
                   text |-> Percent2f(total_values - c.count, total_values)
                            \o <<"%", " ", "s", "i", "m", "i", "l", "a", "r">>,
                   differences |-> c.differences]
             ELSE [pair |-> FALSE,
                   text |-> <<"T", "h", "e", " ", "f", "i", "l", "e", "s", " ", "d", "o", " ", "n", "o", "t", " ", "c", "o", "n", "t", "a", "i", "n", " ", "k", "e", "y", "s", " ", "t", "o", " ", "c", "o", "m", "p", "a", "r", "e", ".">>,
                   differences |-> <<>>]
             : c \in {compare_json(self, env, self.json_file_1, self.json_file_2, <<>>)} })

----------------------------------------------------------------------------
\* Inputs

\* keys of the generated objects
KeyK == <<"k">>
KeyX == <<"x">>

\* orders in which a process may iterate a set of str keys (the order follows
\* the per-process string hash)
HashOrders ==
    { <<KeyK, KeyX, <<"a", "r", "r">>>>, <<<<"a", "r", "r">>, KeyX, KeyK>> }

\* addresses CPython may print for an object() instance
FillAddrs == { <<"0", "x", "7", "f", "3", "a", "5", "c", "1", "b", "2", "d", "9", "0">>, <<"0", "x", "7", "f", "9", "e", "4", "0", "c", "8", "6", "a", "b", "0">> }

\* thresholds handed to the constructor (it accepts any number)
Thresholds == {0, 50, 100, 101}

\* scalar leaves
Scalars == {Str(<<>>), Str(<<"A", "b">>), Num(1), Num(12), Bool(TRUE), Null}

\* elements of the generated arrays
Elems == {Num(1), Dict(<<KeyK>>, <<Str(<<"a", "b">>)>>)}

\* values of the generated objects
Vals == {Num(1), Num(12), Dict(<<KeyX>>, <<List(<<Str(<<"A", "b">>), Bool(TRUE)>>)>>)}

\* all sequences over S of length at most n
SeqsUpTo(S, n) == UNION {[1..m -> S] : m \in 0..n}

\* arrays of at most MaxLen elements
Arrays == {List(xs) : xs \in SeqsUpTo(Elems, MaxLen)}

\* objects over the keys k and x
Objects ==
    {Dict(ks, xs) : ks \in {<<KeyK>>, <<KeyX>>}, xs \in [1..1 -> Vals]}
    \cup {Dict(<<KeyK, KeyX>>, xs) : xs \in [1..2 -> Vals]}
    \cup {Dict(<<>>, <<>>)}

\* {"arr": [1, 2, 3]}
Example3A == Dict(<<<<"a", "r", "r">>>>, <<List(<<Num(1), Num(2), Num(3)>>)>>)

\* {"arr": [1, 2]}
Example3B == Dict(<<<<"a", "r", "r">>>>, <<List(<<Num(1), Num(2)>>)>>)

\* the documents of the specification's examples
Examples ==
    { Dict(<<KeyX>>, <<Str(<<"H", "e", "l", "l", "o">>)>>),
      Dict(<<KeyX>>, <<Str(<<"h", "e", "l", "l", "o">>)>>),
      Dict(<<KeyX>>, <<Str(<<"W", "o", "r", "l", "d">>)>>),
      Example3A,
      Example3B }

\* what json.load can return here
Docs == Scalars \cup Arrays \cup Objects \cup Examples

\* the exception message of the caller-supplied object
Boom == <<"b", "o", "o", "m">>

----------------------------------------------------------------------------
\* The program

\* the JsonComparator instance
Self == [threshold |-> threshold, json_file_1 |-> json_file_1, json_file_2 |-> json_file_2]

\* the process environment of a call whose fill objects print addr
Env(addr) == [hashOrder |-> hashOrder, fillAddr |-> addr]

\* no value: the return slot before any call
NoValue == <<>>

\* __init__: the threshold and the two loaded files
Init ==
    /\ threshold \in Thresholds
    /\ json_file_1 \in Docs
    /\ json_file_2 \in Docs
    /\ hashOrder \in HashOrders
    /\ fillAddr = <<>>
    /\ last = [op |-> "__init__", args |-> <<>>, ret |-> NoValue]

\* No method assigns to self, so what a call returns does not depend on the
\* calls before it: a behaviour is one call on the constructed instance.
Fresh == last.op = "__init__"

\* a call of fuzzy_match
FuzzyMatch ==
    \E value_1 \in {json_file_1, Unprintable(Boom)}, value_2 \in {json_file_2} :
        /\ Fresh
        /\ last' = [op |-> "fuzzy_match", args |-> <<value_1, value_2>>,
                    ret |-> fuzzy_match(value_1, value_2)]
        /\ UNCHANGED <<threshold, json_file_1, json_file_2, hashOrder, fillAddr>>

\* a call of count_values
CountValues ==
    \E json_data \in {json_file_1, json_file_2} :
        /\ Fresh
        /\ last' = [op |-> "count_values", args |-> <<json_data>>,
                    ret |-> count_values(json_data)]
        /\ UNCHANGED <<threshold, json_file_1, json_file_2, hashOrder, fillAddr>>

\* argument pairs of a direct call of compare_json: the loaded files, or the
\* files beside a value that cannot be printed
CompareArgs ==
    { <<json_file_1, json_file_2>>,
      <<List(<<Unprintable(Boom), json_file_1>>), List(<<Null, json_file_2>>)>>,
      <<Dict(<<KeyK, KeyX>>, <<json_file_1, Unprintable(Boom)>>),
        Dict(<<KeyK, KeyX>>, <<json_file_2, Null>>)>> }

\* a call of compare_json; its fill objects print the address addr
CompareJson ==
    \E args \in CompareArgs :
    \E addr \in FillAddrs :
        /\ Fresh
        /\ fillAddr' = addr
        /\ UNCHANGED <<threshold, json_file_1, json_file_2, hashOrder>>
        /\ last' = [op |-> "compare_json", args |-> args,
                    ret |-> compare_json(Self, Env(addr), args[1], args[2], <<>>)]

\* a call of get_comparison
GetComparison ==
    \E addr \in FillAddrs :
        /\ Fresh
        /\ fillAddr' = addr
        /\ UNCHANGED <<threshold, json_file_1, json_file_2, hashOrder>>
        /\ last' = [op |-> "get_comparison", args |-> <<>>,
                    ret |-> get_comparison(Self, Env(addr))]

Next == FuzzyMatch \/ CountValues \/ CompareJson \/ GetComparison

Spec == Init /\ [][Next]_vars

----------------------------------------------------------------------------
\* Properties

\* the last call was compare_json on the two loaded files
Compared == last.op = "compare_json" /\ last.args = <<json_file_1, json_file_2>>

\* ... and it returned
Completed == Compared /\ last.ret.exc = ""

\* the last call was get_comparison
Evaluated == last.op = "get_comparison"

\* the environment the last comparison ran in
LastEnv == Env(fillAddr)

\* the return value of get_comparison for a first file without scalar leaves
Degenerate ==
    [pair |-> FALSE,
     text |-> <<"T", "h", "e", " ", "f", "i", "l", "e", "s", " ", "d", "o", " ", "n", "o", "t", " ", "c", "o", "n", "t", "a", "i", "n", " ", "k", "e", "y", "s", " ", "t", "o", " ", "c", "o", "m", "p", "a", "r", "e", ".">>,
     differences |-> <<>>]

\* C1: the difference count compare_json returns never exceeds
\* count_values of the first tree.
C1_CountWithinScalarTotal ==
    Completed => last.ret.count <= count_values(json_file_1)

\* C2: comparing a document with itself under a threshold of at most 100
\* returns count 0 and no descriptions.
C2_Reflexive ==
    (Compared /\ json_file_1 = json_file_2 /\ threshold <= 100)
        => last.ret = Returned(0, <<>>)

C2_Witness ==
    /\ Compared
    /\ json_file_1 = json_file_2
    /\ threshold = 100
    /\ json_file_1.kind = "dict"
    /\ \E i \in 1..Len(json_file_1.items) : json_file_1.items[i].kind = "dict"
    /\ last.ret = Returned(0, <<>>)

\* the key path a difference description reports
PathOf(d) ==
    LET from == Len(<<"V", "a", "l", "u", "e", " ", "d", "i", "f", "f", "e", "r", "e", "n", "c", "e", " ", "a", "t", " ">>) + 1
        colon == CHOOSE k \in from..Len(d) :
                    /\ SubSeq(d, k, k + 2) = <<":", " ", "'">>
                    /\ \A j \in from..(k - 1) : SubSeq(d, j, j + 2) # <<":", " ", "'">>
    IN SubSeq(d, from, colon - 1)

\* the set of key paths in a list of descriptions
Paths(differences) == {PathOf(differences[i]) : i \in 1..Len(differences)}

\* compare_json on the loaded files under threshold t, in the environment of
\* the last comparison
ComparedUnder(t) ==
    compare_json([Self EXCEPT !.threshold = t], LastEnv, json_file_1, json_file_2, <<>>)

\* C3: for thresholds t1 <= t2 the count under t1 is at most the count under
\* t2, and the paths reported under t1 are among those reported under t2.
C3_ThresholdMonotone ==
    Completed =>
        \A t2 \in Thresholds :
            threshold <= t2 =>
                \A r \in {ComparedUnder(t2)} :
                    /\ r.exc = ""
                    /\ last.ret.count <= r.count
                    /\ Paths(last.ret.differences) \subseteq Paths(r.differences)

C3_Witness ==
    /\ Completed
    /\ threshold = 50
    /\ last.ret.count = 1
    /\ ComparedUnder(100).count = 2

\* C4: get_comparison returns the degenerate text exactly when the first
\* file has no scalar leaves, and otherwise the pair of the percentage
\* (total - diff_count) / total * 100 and compare_json's descriptions.
C4_Evaluate ==
    Evaluated =>
        \A c \in {compare_json(Self, LastEnv, json_file_1, json_file_2, <<>>)} :
            LET total == count_values(json_file_1)
            IN /\ (last.ret = Degenerate) <=> (total = 0)
               /\ total > 0 =>
                    /\ last.ret.pair
                    /\ last.ret.text = Percent2f(total - c.count, total) \o <<"%", " ", "s", "i", "m", "i", "l", "a", "r">>
                    /\ last.ret.differences = c.differences

\* json_data_1 is an object with a key that the object json_data_2 lacks
MissesKey(json_data_1, json_data_2) ==
    /\ json_data_1.kind = "dict"
    /\ json_data_2.kind = "dict"
    /\ \E i \in 1..Len(json_data_1.keys) :
          \A j \in 1..Len(json_data_2.keys) : json_data_2.keys[j] # json_data_1.keys[i]

\* C5: when the second object lacks a key of the first, compare_json still
\* returns a result and get_comparison a percentage or the degenerate text.
C5_MissingKeyCompletes ==
    MissesKey(json_file_1, json_file_2) =>
        /\ Compared => last.ret.exc = ""
        /\ Evaluated => (last.ret.pair \/ last.ret = Degenerate)

\* the last call was compare_json on a container holding, beside a value
\* whose comparison returns, a leaf on which fuzzy_match takes its except branch
MatcherFailed ==
    /\ last.op = "compare_json"
    /\ \E i \in 1..Len(last.args[1].items) :
          /\ last.args[1].items[i].kind = "raiser"
          /\ ~fuzzy_match(last.args[1].items[i], last.args[2].items[i]).num
    /\ compare_json(Self, LastEnv, json_file_1, json_file_2, <<>>).exc = ""

\* C6: a failure of the matcher on one leaf pair does not abort compare_json.
C6_MatcherFailureContained ==
    MatcherFailed => last.ret.exc = ""

\* element `index` of a list, or the fill value past its end
ItemOr(items, index) ==
    IF index < Len(items) THEN items[index + 1] ELSE Absent(fillAddr)

RECURSIVE SumCounts(_, _), ConcatDifferences(_, _)
\* the sum of the counts of results[i..]
SumCounts(results, i) ==
    IF i > Len(results) THEN 0 ELSE results[i].count + SumCounts(results, i + 1)

\* the concatenation of the description lists of results[i..]
ConcatDifferences(results, i) ==
    IF i > Len(results) THEN <<>>
    ELSE results[i].differences \o ConcatDifferences(results, i + 1)

\* the comparisons of the paired positions of two arrays, by increasing index
Positions(items_1, items_2) ==
    [i \in 1..Max(Len(items_1), Len(items_2)) |->
        compare_json(Self, LastEnv, ItemOr(items_1, i - 1), ItemOr(items_2, i - 1),
                     IndexPath(<<>>, i - 1))]

\* C7: on two arrays compare_json visits max(len) positions by increasing
\* index, pairing a[i] with b[i] or the fill value, and returns the summed
\* counts and the concatenated descriptions; for {"arr": [1, 2, 3]} against
\* {"arr": [1, 2]} under a threshold in (score(3, fill), 100] the one
\* difference is the one at arr[2].
C7_ArrayPairing ==
    /\ (Completed /\ json_file_1.kind = "list" /\ json_file_2.kind = "list") =>
          \A results \in {Positions(json_file_1.items, json_file_2.items)} :
              /\ last.ret.count = SumCounts(results, 1)
              /\ last.ret.differences = ConcatDifferences(results, 1)
    /\ ( /\ Compared
         /\ json_file_1 = Example3A
         /\ json_file_2 = Example3B
         /\ threshold <= 100
         /\ fuzzy_match(Num(3), Absent(fillAddr)).ratio < threshold ) =>
          last.ret = Returned(1, << <<"V", "a", "l", "u", "e", " ", "d", "i", "f", "f", "e", "r", "e", "n", "c", "e", " ", "a", "t", " ", "a", "r", "r", "[", "2", "]", ":", " ", "'", "3", "'", " ", "v", "s", " ", "'", "<", "o", "b", "j", "e", "c", "t", " ", "o", "b", "j", "e", "c", "t", " ", "a", "t", " ">>
                                    \o fillAddr \o <<">", "'">> >>)

C7_Witness ==
    /\ Compared
    /\ json_file_1 = Example3A
    /\ json_file_2 = Example3B
    /\ threshold = 50
    /\ last.ret.count = 1

\* the keys of an object, as a set
KeySet(d) == {d.keys[i] : i \in 1..Len(d.keys)}

\* d[key] for a key of the object d
ValueAt(d, key) == d.items[CHOOSE i \in 1..Len(d.keys) : d.keys[i] = key]

\* keys and values to add to the objects of the second document
ExtraKeys == {KeyK, KeyX, <<"z">>}
ExtraVals == {Num(1), Dict(<<KeyK>>, <<List(<<Null>>)>>)}

RECURSIVE AddOneKey(_, _)
\* the documents obtained from b by adding one key to one object of b that
\* faces an object of a, the key being absent from both
AddOneKey(a, b) ==
    IF a.kind = "dict" /\ b.kind = "dict"
    THEN {Dict(Append(b.keys, k), Append(b.items, v)) :
             k \in ExtraKeys \ (KeySet(a) \cup KeySet(b)), v \in ExtraVals}
         \cup UNION { {[b EXCEPT !.items[i] = e] :
                          e \in AddOneKey(ValueAt(a, b.keys[i]), b.items[i])} :
                      i \in {i \in 1..Len(b.keys) : b.keys[i] \in KeySet(a)} }
    ELSE IF a.kind = "list" /\ b.kind = "list"
    THEN UNION { {[b EXCEPT !.items[i] = e] : e \in AddOneKey(a.items[i], b.items[i])} :
                 i \in 1..(IF Len(a.items) < Len(b.items) THEN Len(a.items) ELSE Len(b.items)) }
    ELSE {}

\* ... by adding one key or two
AddKeys(a, b) == AddOneKey(a, b) \cup UNION {AddOneKey(a, b1) : b1 \in AddOneKey(a, b)}

\* the descriptions of a list, as a set
DescriptionSet(differences) == {differences[i] : i \in 1..Len(differences)}

\* C8: keys added to objects of the second document, at keys the facing
\* object of the first lacks, change neither the count, nor the set of
\* descriptions, nor what get_comparison reports.
C8_KeysOnlyInSecondInvisible ==
    /\ Compared =>
          \A b2 \in AddKeys(json_file_1, json_file_2) :
              \A r \in {compare_json(Self, LastEnv, json_file_1, b2, <<>>)} :
                  /\ r.exc = last.ret.exc
                  /\ r.msg = last.ret.msg
                  /\ r.count = last.ret.count
                  /\ DescriptionSet(r.differences) = DescriptionSet(last.ret.differences)
    /\ Evaluated =>
          \A b2 \in AddKeys(json_file_1, json_file_2) :
              \A r \in {get_comparison([Self EXCEPT !.json_file_2 = b2], LastEnv)} :
                  /\ r.pair = last.ret.pair
                  /\ r.text = last.ret.text

C8_Witness ==
    /\ Completed
    /\ json_file_1.kind = "dict"
    /\ Len(json_file_1.keys) = 1
    /\ json_file_2.kind = "dict"
    /\ Len(json_file_2.keys) = 2
    /\ AddKeys(json_file_1, json_file_2) # {}
    /\ last.ret.count = 1

RECURSIVE LeafKinds(_), ArrayLengths(_), ArrayLengthsIn(_)
\* the kinds of the scalar leaves of a tree, left to right
LeafKinds(v) ==
    IF v.kind \in {"dict", "list"}
    THEN IF v.items = <<>> THEN <<>>
         ELSE LeafKinds(v.items[1]) \o LeafKinds([v EXCEPT !.items = Tail(v.items)])
    ELSE IF v.kind \in {"str", "int", "bool", "none"} THEN <<v.kind>>
    ELSE <<>>

\* the summed lengths of the arrays of a tree
ArrayLengths(v) ==
    (IF v.kind = "list" THEN Len(v.items) ELSE 0) + ArrayLengthsIn(v.items)

\* the summed lengths of the arrays of the trees of a sequence
ArrayLengthsIn(vs) ==
    IF vs = <<>> THEN 0 ELSE ArrayLengths(Head(vs)) + ArrayLengthsIn(Tail(vs))

\* how many leaves of a tree are of the kind k
LeavesOfKind(v, k) == Len(SelectSeq(LeafKinds(v), LAMBDA x : x = k))

\* C9: count_values returns the number of scalar leaves: every string,
\* number, boolean and null once (a boolean as a boolean), no keys, and not
\* the array lengths, which array_members holds.
C9_TallyCountsScalarLeaves ==
    last.op = "count_values" =>
        LET v == last.args[1]
            counts == tally(v)
        IN /\ last.ret = Len(LeafKinds(v))
           /\ counts.strings = LeavesOfKind(v, "str")
           /\ counts.numbers = LeavesOfKind(v, "int")
           /\ counts.booleans = LeavesOfKind(v, "bool")
           /\ counts.nulls = LeavesOfKind(v, "none")
           /\ counts.array_members = ArrayLengths(v)

C9_Witness ==
    /\ last.op = "count_values"
    /\ last.args[1] = Example3A
    /\ last.ret = 3
    /\ tally(Example3A).array_members = 3

RECURSIVE LeafPairs(_, _, _), LeafPairsOfKeys(_, _, _, _), LeafPairsFrom(_, _, _, _)
\* the leaf-level pairs compare_json visits on (a, b), in visit order, each
\* with its key path; for a comparison that returns
LeafPairs(a, b, path) ==
    CASE a.kind = "dict" -> LeafPairsOfKeys(a, b, path, all_keys(LastEnv, a))
      [] a.kind = "list" -> LeafPairsFrom(a.items, Iterate(b).elems, path, 0)
      [] OTHER -> << [path |-> path, v1 |-> a, v2 |-> b] >>

LeafPairsOfKeys(a, b, path, keys) ==
    IF keys = <<>> THEN <<>>
    ELSE LeafPairs(ValueAt(a, Head(keys)), ValueAt(b, Head(keys)), KeyPath(path, Head(keys)))
         \o LeafPairsOfKeys(a, b, path, Tail(keys))

LeafPairsFrom(items_1, items_2, path, index) ==
    IF index >= Len(items_1) /\ index >= Len(items_2) THEN <<>>
    ELSE LeafPairs(ItemOr(items_1, index), ItemOr(items_2, index), IndexPath(path, index))
         \o LeafPairsFrom(items_1, items_2, path, index + 1)

\* the visited leaf pairs that score below the threshold
Below(pairs) ==
    SelectSeq(pairs, LAMBDA p : fuzzy_match(p.v1, p.v2).ratio < threshold)

\* C10: the count equals the number of descriptions and the number of
\* visited leaf pairs scoring below the threshold, each of which contributes
\* its one description, in visit order.
C10_CountIsDescriptionsIsLeavesBelow ==
    Completed =>
        \A below \in {Below(LeafPairs(json_file_1, json_file_2, <<>>))} :
            /\ last.ret.count = Len(last.ret.differences)
            /\ last.ret.count = Len(below)
            /\ last.ret.differences =
                  [i \in 1..Len(below) |-> Difference(below[i].path, below[i].v1, below[i].v2)]

C10_Witness ==
    /\ Completed
    /\ Len(LeafPairs(json_file_1, json_file_2, <<>>)) = 3
    /\ last.ret.count = 1
    /\ Len(last.ret.differences) = 1

====
